---- MODULE Spec2Model ----
(***************************************************************************)
(* Model of check/controls.go: the Controls aggregate, Controls.RunGroup,  *)
(* Controls.RunChecks and the three summarize folds.                       *)
(*                                                                         *)
(* Check and Group values are Go pointers.  Check objects are never        *)
(* allocated after load, so a check is addressed by its ID in `checks`.    *)
(* Group objects are allocated by RunChecks, so `groups` is a heap indexed *)
(* by address and controls.Groups is a sequence of addresses.              *)
(***************************************************************************)
EXTENDS Integers, Sequences, FiniteSets, TLC

\* ---- bounds ----
MaxRuns == 2    \* run invocations per behaviour
MaxIds == 2     \* length of a requested id list
MaxCalls == 3   \* Check.Run invocations per behaviour

\* ---- check states (check.State) ----
PASS == "PASS"
FAIL == "FAIL"
WARN == "WARN"
INFO == "INFO"
SKIP == "SKIP"
States == {PASS, FAIL, WARN, INFO, SKIP}

\* ---- the loaded catalog: two groups, three checks ----
CatalogGroupIDs == <<"1", "2">>
CatalogChecks == <<(<<"1.1", "1.2">>), (<<"2.1">>)>>
CheckIDs == {"1.1", "1.2", "2.1"}
GroupIDs == {"1", "2"}

\* the required levels (check.CheckCISLevel) of the catalogs loaded: levels
\* 1 and 2; a level 3 followed by an unparsable level; an unparsable level
\* followed by a level 2
Levels(a, b, c) == ("1.1" :> a) @@ ("1.2" :> b) @@ ("2.1" :> c)
CatalogLevels == { Levels("1", "2", "1"), Levels("1", "3", "x"), Levels("1", "x", "2") }

\* the user-selected levels (controls.UserCISLevel)
UserLevels == {"1", "2", "x"}

\* the verdicts the audit of each check can reach on the host
Audit == [c \in CheckIDs |->
            CASE c = "1.1" -> {PASS, FAIL}
              [] c = "1.2" -> {WARN, INFO}
              [] OTHER     -> {PASS, WARN}]

Remediation == [c \in CheckIDs |-> "fix"]

\* the audit text of each check, as its words; "|" separates the commands
AuditText ==
  [c \in CheckIDs |->
     CASE c = "1.1" -> <<"ps", "-ef", "|", "grep", "apiserver">>
       [] c = "1.2" -> <<"stat", "/etc/kubernetes">>
       [] OTHER     -> <<"cat", "/etc/conf", "|", "grep", "x", "|", "wc">>]

\* textToCommand(s): one command per "|"-separated part of the audit text
RECURSIVE SplitPipes(_, _, _)
SplitPipes(text, i, cur) ==
  IF i > Len(text) THEN <<cur>>
  ELSE IF text[i] = "|" THEN <<cur>> \o SplitPipes(text, i + 1, <<>>)
       ELSE SplitPipes(text, i + 1, Append(cur, text[i]))

textToCommand(text) ==
  LET parts == SplitPipes(text, 1, <<>>)
  IN [p \in DOMAIN parts |->
        [Path |-> IF Len(parts[p]) = 0 THEN "" ELSE parts[p][1], Args |-> parts[p]]]

NodeTypes == {"master", "node"}

\* the documents NewControls is handed, as yaml.Unmarshal reads them: bytes
\* that do not parse, or a catalog with its `type`, its groups and the levels
\* of its checks, and possibly a `usercislevel` key, the key under which
\* yaml.Unmarshal fills the untagged field UserCISLevel
NoKey == "<no key>"

Documents ==
  { [ok |-> FALSE, type |-> "", usercislevel |-> NoKey, levels |-> Levels("", "", "")] }
  \cup [ok : {TRUE}, type : NodeTypes, usercislevel : {NoKey, "1", "2"},
        levels : CatalogLevels]

VARIABLES
  controls,   \* the Controls object: UserCISLevel, Groups, Summary, SummaryLevelWise
  checks,     \* Check objects by ID: CheckCISLevel, State, TestInfo
  groups,     \* heap of Group objects: ID, Text, five counters, Checks
  call,       \* the last run invocation: op, ids, err, returned Summary, Check.Run calls
  pre,        \* controls, checks, groups and call as they were when the last invocation began
  runs,       \* number of run invocations so far
  calls,      \* number of Check.Run invocations so far
  limit,      \* number of Check.Run invocations the behaviour may make
  load        \* the NewControls call: node type, level, document, err, returned pointer

vars == <<controls, checks, groups, call, pre, runs, calls, limit, load>>

Summary0 == [Pass |-> 0, Fail |-> 0, Warn |-> 0, Info |-> 0, Skip |-> 0]

\* strconv.ParseUint(s, 10, 64): the value and whether parsing failed
Numerals == ("0" :> 0) @@ ("1" :> 1) @@ ("2" :> 2) @@ ("3" :> 3)

ParseUint(s) ==
  IF s \in DOMAIN Numerals THEN [val |-> Numerals[s], err |-> FALSE]
                           ELSE [val |-> 0, err |-> TRUE]

NewGroup(id, text, cs) ==
  [ID |-> id, Text |-> text, Pass |-> 0, Fail |-> 0, Warn |-> 0, Skip |-> 0,
   Info |-> 0, Checks |-> cs]

NoCall == [op |-> "none", ids |-> <<>>, err |-> "nil", ret |-> Summary0, ran |-> <<>>]

\* the Check that yaml.Unmarshal creates, and the one NewControls returns
NewCheck(id, lvl) ==
  [ID |-> id, CheckCISLevel |-> lvl, State |-> "", TestInfo |-> <<>>,
   Audit |-> AuditText[id], Commands |-> <<>>]

LoadedCheck(id, lvl) == [NewCheck(id, lvl) EXCEPT !.Commands = textToCommand(AuditText[id])]

Loaded(t, level, in) ==
  [t |-> t, level |-> level, in |-> in, err |-> "nil", ret |-> "c"]

Init ==
  /\ \E u \in UserLevels, lv \in CatalogLevels :
       /\ controls = [Type |-> "master", UserCISLevel |-> u, Groups |-> <<1, 2>>,
                      Summary |-> Summary0, SummaryLevelWise |-> <<>>]
       /\ checks = [c \in CheckIDs |-> LoadedCheck(c, lv[c])]
       /\ load = Loaded("master", u, [ok |-> TRUE, type |-> "master",
                                      usercislevel |-> NoKey, levels |-> lv])
  /\ groups = [a \in 1..2 |-> NewGroup(CatalogGroupIDs[a], "text", CatalogChecks[a])]
  /\ call = NoCall
  /\ pre = [controls |-> controls, checks |-> checks, groups |-> groups, call |-> NoCall]
  /\ runs = 0
  /\ calls = 0
  /\ limit = MaxCalls

\* Check.Run(): sets check.State to a terminal state.  A check whose State
\* was set to SKIP beforehand may come back still SKIP.
Run(check) ==
  { [check EXCEPT !.State = v] :
      v \in Audit[check.ID] \cup (IF check.State = SKIP THEN {SKIP} ELSE {}) }

Bump(s, state) ==
  CASE state = PASS -> [s EXCEPT !.Pass = @ + 1]
    [] state = FAIL -> [s EXCEPT !.Fail = @ + 1]
    [] state = WARN -> [s EXCEPT !.Warn = @ + 1]
    [] state = INFO -> [s EXCEPT !.Info = @ + 1]
    [] state = SKIP -> [s EXCEPT !.Skip = @ + 1]
    [] OTHER -> s

\* The run in progress is a record st: controls, checks, groups (the objects),
\* g and m (the locals of RunGroup / RunChecks), ran (the Check.Run calls made,
\* in order, each with the group being iterated, whether the check had been
\* force-set to SKIP, and the State the call left), left
\* (the Check.Run invocations the behaviour may still make), and
\* err: "nil", "error" (an error is being returned) or "panic".

\* summarize without its `case INFO` arm
summarize_NoInfo(st, check) ==
  IF check.State = INFO THEN st
  ELSE [st EXCEPT !.controls.Summary = Bump(@, check.State)]

summarize(st, check) ==
  [st EXCEPT !.controls.Summary = Bump(@, check.State)]

summarizeGroup(st, ga, check) ==
  [st EXCEPT !.groups[ga] = Bump(@, check.State)]

\* control.SummaryLevelWise[check.CheckCISLevel] is a nil *Summary when the
\* key is absent, and incrementing a field through it panics.
summarizeLevel(st, check) ==
  IF check.State \notin States THEN st
  ELSE IF check.CheckCISLevel \notin DOMAIN st.controls.SummaryLevelWise
       THEN [st EXCEPT !.err = "panic"]
       ELSE [st EXCEPT !.controls.SummaryLevelWise[check.CheckCISLevel] =
                          Bump(@, check.State)]

\* the reset without the assignment to controls.Summary
ResetSummaries_KeepGlobal(c) ==
  [c EXCEPT !.SummaryLevelWise = [k \in {"1", "2"} |-> Summary0]]

ResetSummaries(c) ==
  [c EXCEPT !.Summary = Summary0,
            !.SummaryLevelWise = [k \in {"1", "2"} |-> Summary0]]

RECURSIVE getAllGroupIDsFrom(_, _, _)
getAllGroupIDsFrom(Gs, heap, i) ==
  IF i > Len(Gs) THEN <<>>
  ELSE <<heap[Gs[i]].ID>> \o getAllGroupIDsFrom(Gs, heap, i + 1)

getAllGroupIDs(c, heap) == getAllGroupIDsFrom(c.Groups, heap, 1)

\* the collection of check ids stopping after the first group
RECURSIVE getAllCheckIDsFrom_FirstOnly(_, _, _)
getAllCheckIDsFrom_FirstOnly(Gs, heap, i) ==
  IF i > Len(Gs) \/ i > 1 THEN <<>>
  ELSE heap[Gs[i]].Checks \o getAllCheckIDsFrom_FirstOnly(Gs, heap, i + 1)

RECURSIVE getAllCheckIDsFrom(_, _, _)
getAllCheckIDsFrom(Gs, heap, i) ==
  IF i > Len(Gs) THEN <<>>
  ELSE heap[Gs[i]].Checks \o getAllCheckIDsFrom(Gs, heap, i + 1)

getAllCheckIDs(c, heap) == getAllCheckIDsFrom(c.Groups, heap, 1)

\* ---- RunGroup ----

\* the loop body storing the remediation as the only TestInfo entry
RunGroupCheck_Replace(st, userCISLevel, ga, cid) ==
  LET check == st.checks[cid]
      checkCIS == ParseUint(check.CheckCISLevel)
  IN IF checkCIS.err THEN { [st EXCEPT !.err = "error"] }
     ELSE IF Len(st.ran) >= st.left THEN {}
     ELSE LET gated == userCISLevel < checkCIS.val
              c1 == IF gated THEN [check EXCEPT !.State = SKIP] ELSE check
          IN { LET c3 == [c2 EXCEPT !.TestInfo = <<Remediation[cid]>>]
                   s1 == [st EXCEPT !.checks[cid] = c3,
                                    !.ran = Append(@, [id |-> cid, grp |-> ga, gated |-> gated,
                                                       state |-> c3.State])]
                   s2 == summarize(s1, c3)
                   s3 == summarizeGroup(s2, ga, c3)
               IN summarizeLevel(s3, c3)
               : c2 \in Run(c1) }

\* the body of the innermost loop of RunGroup, for one check of group ga
RunGroupCheck(st, userCISLevel, ga, cid) ==
  LET check == st.checks[cid]
      checkCIS == ParseUint(check.CheckCISLevel)
  IN IF checkCIS.err THEN { [st EXCEPT !.err = "error"] }
     ELSE IF Len(st.ran) >= st.left THEN {}
     ELSE LET gated == userCISLevel < checkCIS.val
              c1 == IF gated THEN [check EXCEPT !.State = SKIP] ELSE check
          IN { LET c3 == [c2 EXCEPT !.TestInfo = Append(@, Remediation[cid])]
                   s1 == [st EXCEPT !.checks[cid] = c3,
                                    !.ran = Append(@, [id |-> cid, grp |-> ga, gated |-> gated,
                                                       state |-> c3.State])]
                   s2 == summarize(s1, c3)
                   s3 == summarizeGroup(s2, ga, c3)
               IN summarizeLevel(s3, c3)
               : c2 \in Run(c1) }

RECURSIVE RunGroupChecks(_, _, _, _)
RunGroupChecks(st, userCISLevel, ga, ci) ==
  IF st.err # "nil" \/ ci > Len(st.groups[ga].Checks) THEN {st}
  ELSE UNION { RunGroupChecks(s2, userCISLevel, ga, ci + 1) :
                 s2 \in RunGroupCheck(st, userCISLevel, ga, st.groups[ga].Checks[ci]) }

\* the gid loop leaving at the first gid that matches the group
RECURSIVE RunGroupGids_Break(_, _, _, _, _)
RunGroupGids_Break(st, userCISLevel, ga, gids, j) ==
  IF st.err # "nil" \/ j > Len(gids) THEN {st}
  ELSE IF gids[j] = st.groups[ga].ID
       THEN { IF s2.err = "nil" THEN [s2 EXCEPT !.g = Append(@, ga)] ELSE s2 :
                s2 \in RunGroupChecks(st, userCISLevel, ga, 1) }
       ELSE RunGroupGids_Break(st, userCISLevel, ga, gids, j + 1)

RECURSIVE RunGroupGids(_, _, _, _, _)
RunGroupGids(st, userCISLevel, ga, gids, j) ==
  IF st.err # "nil" \/ j > Len(gids) THEN {st}
  ELSE IF gids[j] = st.groups[ga].ID
       THEN UNION { RunGroupGids(IF s2.err = "nil" THEN [s2 EXCEPT !.g = Append(@, ga)]
                                                    ELSE s2,
                                 userCISLevel, ga, gids, j + 1) :
                      s2 \in RunGroupChecks(st, userCISLevel, ga, 1) }
       ELSE RunGroupGids(st, userCISLevel, ga, gids, j + 1)

\* the two outer loops of RunGroup exchanged: for every requested id in
\* turn, every group of the catalog
RECURSIVE RunGroupGroups_GidsOuter(_, _, _, _, _)
RunGroupGroups_GidsOuter(st, userCISLevel, Gs, gids, j) ==
  LET RECURSIVE OneGid(_, _)
      OneGid(s, i) ==
        IF s.err # "nil" \/ i > Len(Gs) THEN {s}
        ELSE UNION { OneGid(s2, i + 1) :
                       s2 \in RunGroupGids(s, userCISLevel, Gs[i], <<gids[j]>>, 1) }
  IN IF st.err # "nil" \/ j > Len(gids) THEN {st}
     ELSE UNION { RunGroupGroups_GidsOuter(s2, userCISLevel, Gs, gids, j + 1) :
                    s2 \in OneGid(st, 1) }

RECURSIVE RunGroupGroups(_, _, _, _, _)
RunGroupGroups(st, userCISLevel, Gs, gids, i) ==
  IF st.err # "nil" \/ i > Len(Gs) THEN {st}
  ELSE UNION { RunGroupGroups(s2, userCISLevel, Gs, gids, i + 1) :
                 s2 \in RunGroupGids(st, userCISLevel, Gs[i], gids, 1) }

\* RunGroup assigning `controls.Groups = g` before every return
RunGroupResults_AssignAlways(c, cs, heap, n, gids0) ==
  LET c0 == ResetSummaries(c)
      gids == IF Len(gids0) = 0 THEN getAllGroupIDs(c0, heap) ELSE gids0
      userCISLevel == ParseUint(c0.UserCISLevel)
      st0 == [controls |-> c0, checks |-> cs, groups |-> heap, g |-> <<>>,
              m |-> <<>>, ran |-> <<>>, left |-> n, err |-> "nil"]
  IN IF userCISLevel.err THEN { [st0 EXCEPT !.err = "error", !.controls.Groups = <<>>] }
     ELSE { [r EXCEPT !.controls.Groups = r.g] :
              r \in RunGroupGroups(st0, userCISLevel.val, c0.Groups, gids, 1) }

\* RunGroup without the final `controls.Groups = g`
RunGroupResults_KeepGroups(c, cs, heap, n, gids0) ==
  LET c0 == ResetSummaries(c)
      gids == IF Len(gids0) = 0 THEN getAllGroupIDs(c0, heap) ELSE gids0
      userCISLevel == ParseUint(c0.UserCISLevel)
      st0 == [controls |-> c0, checks |-> cs, groups |-> heap, g |-> <<>>,
              m |-> <<>>, ran |-> <<>>, left |-> n, err |-> "nil"]
  IN IF userCISLevel.err THEN { [st0 EXCEPT !.err = "error"] }
     ELSE RunGroupGroups(st0, userCISLevel.val, c0.Groups, gids, 1)

\* the states in which RunGroup(gids0) can leave the run
RunGroupResults(c, cs, heap, n, gids0) ==
  LET c0 == ResetSummaries(c)
      gids == IF Len(gids0) = 0 THEN getAllGroupIDs(c0, heap) ELSE gids0
      userCISLevel == ParseUint(c0.UserCISLevel)
      st0 == [controls |-> c0, checks |-> cs, groups |-> heap, g |-> <<>>,
              m |-> <<>>, ran |-> <<>>, left |-> n, err |-> "nil"]
  IN IF userCISLevel.err THEN { [st0 EXCEPT !.err = "error"] }
     ELSE { IF r.err = "nil" THEN [r EXCEPT !.controls.Groups = r.g] ELSE r :
              r \in RunGroupGroups(st0, userCISLevel.val, c0.Groups, gids, 1) }

Finish(op, ids, r) ==
  /\ controls' = r.controls
  /\ checks' = r.checks
  /\ groups' = r.groups
  /\ call' = [op |-> op, ids |-> ids, err |-> r.err, ret |-> r.controls.Summary,
              ran |-> r.ran]
  /\ pre' = [controls |-> controls, checks |-> checks, groups |-> groups, call |-> call]
  /\ runs' = runs + 1
  /\ calls' = calls + Len(r.ran)
  /\ UNCHANGED <<limit, load>>

CanRun == load.err = "nil" /\ runs < MaxRuns /\ call.err # "panic"

RunGroup(gids) ==
  /\ CanRun
  /\ \E r \in RunGroupResults(controls, checks, groups, limit - calls, gids) : Finish("RunGroup", gids, r)

\* ---- RunChecks ----

\* the match body creating a Group for every match, without consulting m
RunChecksMatch_NoMap(st, ga, cid) ==
  LET check == st.checks[cid]
      group == st.groups[ga]
  IN IF Len(st.ran) >= st.left THEN {} ELSE
     { LET c3 == [c2 EXCEPT !.TestInfo = Append(@, Remediation[cid])]
           s1 == [st EXCEPT !.checks[cid] = c3,
                            !.ran = Append(@, [id |-> cid, grp |-> ga, gated |-> FALSE,
                                               state |-> c3.State])]
           s2 == summarize(s1, c3)
           s3 == summarizeLevel(s2, c3)
       IN IF s3.err # "nil" THEN s3
          ELSE LET w == Len(s3.groups) + 1
               IN [s3 EXCEPT !.groups = Append(@, NewGroup(group.ID, group.Text, <<cid>>)),
                             !.m = (group.ID :> w) @@ @,
                             !.g = Append(@, w)]
       : c2 \in Run(check) }

\* the match body keeping the catalog's own Group instead of a new one
RunChecksMatch_Reuse(st, ga, cid) ==
  LET check == st.checks[cid]
      group == st.groups[ga]
  IN IF Len(st.ran) >= st.left THEN {} ELSE
     { LET c3 == [c2 EXCEPT !.TestInfo = Append(@, Remediation[cid])]
           s1 == [st EXCEPT !.checks[cid] = c3,
                            !.ran = Append(@, [id |-> cid, grp |-> ga, gated |-> FALSE,
                                               state |-> c3.State])]
           s2 == summarize(s1, c3)
           s3 == summarizeLevel(s2, c3)
       IN IF s3.err # "nil" THEN s3
          ELSE IF group.ID \notin DOMAIN s3.m
               THEN [s3 EXCEPT !.groups[ga].Checks = <<cid>>,
                               !.m = (group.ID :> ga) @@ @,
                               !.g = Append(@, ga)]
               ELSE [s3 EXCEPT !.groups[s3.m[group.ID]].Checks = Append(@, cid)]
       : c2 \in Run(check) }

\* the body of `if id == check.ID` in RunChecks, for check cid of group ga
RunChecksMatch(st, ga, cid) ==
  LET check == st.checks[cid]
      group == st.groups[ga]
  IN IF Len(st.ran) >= st.left THEN {} ELSE
     { LET c3 == [c2 EXCEPT !.TestInfo = Append(@, Remediation[cid])]
           s1 == [st EXCEPT !.checks[cid] = c3,
                            !.ran = Append(@, [id |-> cid, grp |-> ga, gated |-> FALSE,
                                               state |-> c3.State])]
           s2 == summarize(s1, c3)
           s3 == summarizeLevel(s2, c3)
       IN IF s3.err # "nil" THEN s3
          ELSE IF group.ID \notin DOMAIN s3.m
               THEN LET w == Len(s3.groups) + 1
                    IN [s3 EXCEPT !.groups = Append(@, NewGroup(group.ID, group.Text, <<cid>>)),
                                  !.m = (group.ID :> w) @@ @,
                                  !.g = Append(@, w)]
               ELSE [s3 EXCEPT !.groups[s3.m[group.ID]].Checks = Append(@, cid)]
       : c2 \in Run(check) }

\* the loop over ids leaving at the first id that matches
RECURSIVE RunChecksIds_FirstMatch(_, _, _, _, _)
RunChecksIds_FirstMatch(st, ga, cid, ids, j) ==
  IF st.err # "nil" \/ j > Len(ids) THEN {st}
  ELSE IF ids[j] = st.checks[cid].ID
       THEN RunChecksMatch(st, ga, cid)
       ELSE RunChecksIds_FirstMatch(st, ga, cid, ids, j + 1)

RECURSIVE RunChecksIds(_, _, _, _, _)
RunChecksIds(st, ga, cid, ids, j) ==
  IF st.err # "nil" \/ j > Len(ids) THEN {st}
  ELSE IF ids[j] = st.checks[cid].ID
       THEN UNION { RunChecksIds(s2, ga, cid, ids, j + 1) : s2 \in RunChecksMatch(st, ga, cid) }
       ELSE RunChecksIds(st, ga, cid, ids, j + 1)

RECURSIVE RunChecksChecks(_, _, _, _, _)
RunChecksChecks(st, ga, Cs, ids, ci) ==
  IF st.err # "nil" \/ ci > Len(Cs) THEN {st}
  ELSE UNION { RunChecksChecks(s2, ga, Cs, ids, ci + 1) :
                 s2 \in RunChecksIds(st, ga, Cs[ci], ids, 1) }

RECURSIVE RunChecksGroups(_, _, _, _)
RunChecksGroups(st, Gs, ids, i) ==
  IF st.err # "nil" \/ i > Len(Gs) THEN {st}
  ELSE UNION { RunChecksGroups(s2, Gs, ids, i + 1) :
                 s2 \in RunChecksChecks(st, Gs[i], st.groups[Gs[i]].Checks, ids, 1) }

RunChecksResults(c, cs, heap, n, ids0) ==
  LET c0 == ResetSummaries(c)
      ids == IF Len(ids0) = 0 THEN getAllCheckIDs(c0, heap) ELSE ids0
      st0 == [controls |-> c0, checks |-> cs, groups |-> heap, g |-> <<>>,
              m |-> <<>>, ran |-> <<>>, left |-> n, err |-> "nil"]
  IN { IF r.err = "nil" THEN [r EXCEPT !.controls.Groups = r.g] ELSE r :
         r \in RunChecksGroups(st0, c0.Groups, ids, 1) }

RunChecks(ids) ==
  /\ CanRun
  /\ \E r \in RunChecksResults(controls, checks, groups, limit - calls, ids) : Finish("RunChecks", ids, r)

\* ---- the requested id lists ----
IdLists(S) == UNION { [1..n -> S] : n \in 0..MaxIds }

Next ==
  \/ \E gids \in IdLists(GroupIDs) : RunGroup(gids)
  \/ \E ids \in IdLists(CheckIDs) : RunChecks(ids)

Spec == Init /\ [][Next]_vars

\* Catalogs whose levels all have a bucket, one of them with a group that has
\* no checks, loaded with a parsable level, and one Check.Run invocation more:
\* enough for a run over a Controls.Groups that an earlier run left with an
\* entry listed twice.  The level "1" gates check 1.2 in RunGroup.
DeepLevels == { Levels("1", "2", "1") }

DeepCatalogs == { CatalogChecks, <<(<<"1.1", "1.2">>), <<>>>> }

DeepUserLevels == {"1"}

InitDeep ==
  /\ \E u \in DeepUserLevels, lv \in DeepLevels :
       /\ controls = [Type |-> "master", UserCISLevel |-> u, Groups |-> <<1, 2>>,
                      Summary |-> Summary0, SummaryLevelWise |-> <<>>]
       /\ checks = [c \in CheckIDs |-> LoadedCheck(c, lv[c])]
       /\ load = Loaded("master", u, [ok |-> TRUE, type |-> "master",
                                      usercislevel |-> NoKey, levels |-> lv])
  /\ \E cat \in DeepCatalogs :
       groups = [a \in 1..2 |-> NewGroup(CatalogGroupIDs[a], "text", cat[a])]
  /\ call = NoCall
  /\ pre = [controls |-> controls, checks |-> checks, groups |-> groups, call |-> NoCall]
  /\ runs = 0
  /\ calls = 0
  /\ limit = MaxCalls + 1

SpecDeep == InitDeep /\ [][Next]_vars

\* ---- NewControls ----

\* new(Controls)
ZeroControls ==
  [Type |-> "", UserCISLevel |-> "", Groups |-> <<>>, Summary |-> Summary0,
   SummaryLevelWise |-> <<>>]

NoLoad == [t |-> "", level |-> "", in |-> [ok |-> FALSE], err |-> "none", ret |-> "nil"]

\* yaml.Unmarshal(in, c): an error, or c with the fields the document has a
\* key for filled in, and the Group and Check objects it allocates
Unmarshal(in, c) ==
  IF ~in.ok THEN [err |-> TRUE, c |-> c, groups |-> <<>>, checks |-> <<>>]
  ELSE [err |-> FALSE,
        c |-> [c EXCEPT !.Type = in.type,
                        !.UserCISLevel = IF in.usercislevel = NoKey THEN @
                                         ELSE in.usercislevel,
                        !.Groups = <<1, 2>>],
        groups |-> [a \in 1..2 |-> NewGroup(CatalogGroupIDs[a], "text", CatalogChecks[a])],
        checks |-> [id \in CheckIDs |-> NewCheck(id, in.levels[id])]]

\* the loop `check.Commands = textToCommand(check.Audit)` over the checks of
\* the groups Gs[i..]
RECURSIVE PrepareCommands(_, _, _, _)
PrepareCommands(cs, heap, Gs, i) ==
  IF i > Len(Gs) THEN cs
  ELSE LET ids == { heap[Gs[i]].Checks[k] : k \in DOMAIN heap[Gs[i]].Checks }
       IN PrepareCommands([id \in DOMAIN cs |->
                             IF id \in ids
                             THEN [cs[id] EXCEPT !.Commands = textToCommand(cs[id].Audit)]
                             ELSE cs[id]],
                          heap, Gs, i + 1)

NewControls(t, level, in) ==
  /\ load.err = "none"
  /\ LET c1 == [ZeroControls EXCEPT !.UserCISLevel = level]
         u == Unmarshal(in, c1)
         failed == u.err \/ t # u.c.Type
     IN /\ controls' = u.c
        /\ groups' = u.groups
        /\ checks' = IF failed THEN u.checks
                     ELSE PrepareCommands(u.checks, u.groups, u.c.Groups, 1)
        /\ load' = [t |-> t, level |-> level, in |-> in,
                    err |-> IF failed THEN "error" ELSE "nil",
                    ret |-> IF failed THEN "nil" ELSE "c"]
        /\ pre' = [controls |-> controls', checks |-> checks', groups |-> groups',
                   call |-> NoCall]
  /\ UNCHANGED <<call, runs, calls, limit>>

InitLoad ==
  /\ controls = ZeroControls
  /\ checks = <<>>
  /\ groups = <<>>
  /\ call = NoCall
  /\ pre = [controls |-> controls, checks |-> checks, groups |-> groups, call |-> NoCall]
  /\ runs = 0
  /\ calls = 0
  /\ limit = MaxCalls
  /\ load = NoLoad

NextLoad == \E t \in NodeTypes, level \in UserLevels, in \in Documents : NewControls(t, level, in)

SpecLoad == InitLoad /\ [][NextLoad]_vars

\* ---------------------------------------------------------------------------
\* Properties
\* ---------------------------------------------------------------------------

Total(s) == s.Pass + s.Fail + s.Warn + s.Info + s.Skip

Field(s, v) ==
  CASE v = PASS -> s.Pass
    [] v = FAIL -> s.Fail
    [] v = WARN -> s.Warn
    [] v = INFO -> s.Info
    [] OTHER    -> s.Skip

\* the last invocation returned (with or without an error) / returned nil
Returned == call.op # "none" /\ call.err # "panic"
Succeeded == call.op # "none" /\ call.err = "nil"

\* the catalog the last invocation started from
PreGroups == pre.controls.Groups
PreGroup(i) == pre.groups[PreGroups[i]]

\* the ids the last invocation iterated over (all of them when none was passed)
EffectiveIds ==
  IF Len(call.ids) # 0 THEN call.ids
  ELSE IF call.op = "RunGroup" THEN getAllGroupIDs(pre.controls, pre.groups)
       ELSE getAllCheckIDs(pre.controls, pre.groups)

UserLevel == ParseUint(controls.UserCISLevel)
LevelOf(cid) == ParseUint(checks[cid].CheckCISLevel)

\* C1: after RunGroup returns, every check of a requested group whose
\* required level is greater than the user-selected level was never passed
\* to Check.Run during the run, and its State is SKIP.
C1_LevelGating ==
  (call.op = "RunGroup" /\ call.err = "nil") =>
    \A i \in DOMAIN PreGroups : \A j \in DOMAIN EffectiveIds :
      EffectiveIds[j] = PreGroup(i).ID =>
        \A k \in DOMAIN PreGroup(i).Checks :
          LET cid == PreGroup(i).Checks[k]
          IN LevelOf(cid).val > UserLevel.val =>
               /\ \A n \in DOMAIN call.ran : call.ran[n].id # cid
               /\ checks[cid].State = SKIP

\* the Check.Run calls of the last invocation that reached summarizeLevel's
\* increment: all of them, but the last one when that increment panicked
LevelRan ==
  IF call.err = "panic" THEN SubSeq(call.ran, 1, Len(call.ran) - 1) ELSE call.ran

\* C2: after an invocation that follows another one, the global Summary and
\* every level-keyed Summary count exactly the checks processed in this
\* invocation, state by state: nothing of the earlier run is left in them.
C2_SummaryReset ==
  runs >= 2 =>
    \A v \in States :
      /\ Field(controls.Summary, v) =
           Cardinality({n \in DOMAIN call.ran : call.ran[n].state = v})
      /\ \A lvl \in DOMAIN controls.SummaryLevelWise :
           Field(controls.SummaryLevelWise[lvl], v) =
             Cardinality({n \in DOMAIN LevelRan :
                            /\ LevelRan[n].state = v
                            /\ checks[LevelRan[n].id].CheckCISLevel = lvl})

\* a second invocation returned nil after a first one that counted something
C2_Witness ==
  /\ runs = 2
  /\ call.err = "nil"
  /\ Total(pre.controls.Summary) > 0
  /\ Total(controls.Summary) > 0

\* the matches of the last invocation: (group position, id position, check
\* position) for RunGroup, the same triple with the id matching the check
\* for RunChecks
Matches ==
  UNION { { <<i, j, k>> : k \in { k \in DOMAIN PreGroup(i).Checks :
                                     \/ /\ call.op = "RunGroup"
                                        /\ EffectiveIds[j] = PreGroup(i).ID
                                     \/ /\ call.op = "RunChecks"
                                        /\ EffectiveIds[j] = PreGroup(i).Checks[k] } } :
            <<i, j>> \in (DOMAIN PreGroups) \X (DOMAIN EffectiveIds) }

\* C3: when a run returns without error, the five counters of the returned
\* Summary add up to the number of checks selected in that run, one per match
\* of a requested id against a group (RunGroup) or a check (RunChecks).
C3_CounterConservation ==
  Succeeded => Total(call.ret) = Cardinality(Matches)

\* a RunChecks with two requested ids that matched twice
C3_Witness ==
  /\ call.op = "RunChecks"
  /\ call.err = "nil"
  /\ Len(call.ids) = 2
  /\ Total(call.ret) = 2

\* the sum of all counters of all entries of SummaryLevelWise
RECURSIVE SumLevels(_, _)
SumLevels(slw, keys) ==
  IF keys = {} THEN 0
  ELSE LET k == CHOOSE x \in keys : TRUE
       IN Total(slw[k]) + SumLevels(slw, keys \ {k})

\* C4: after a full-catalog run (no ids passed), the counters of all
\* SummaryLevelWise entries add up to the number of checks run, whatever
\* levels the catalog's checks require.
C4_LevelBucketConservation ==
  (call.op # "none" /\ Len(call.ids) = 0) =>
    SumLevels(controls.SummaryLevelWise, DOMAIN controls.SummaryLevelWise) = Len(call.ran)

RanLevel(n) == checks[call.ran[n].id].CheckCISLevel

\* C5: every aggregated check incremented one counter of the SummaryLevelWise
\* entry keyed by its own required level, whatever that level is, and no
\* other entry; a check force-set to SKIP is counted under Skip of its level.
C5_OwnLevelBucket ==
  call.op # "none" =>
    \A lvl \in DOMAIN controls.SummaryLevelWise \cup { RanLevel(n) : n \in DOMAIN call.ran } :
      /\ lvl \in DOMAIN controls.SummaryLevelWise
      /\ Total(controls.SummaryLevelWise[lvl]) =
           Cardinality({n \in DOMAIN call.ran : RanLevel(n) = lvl})
      /\ controls.SummaryLevelWise[lvl].Skip >=
           Cardinality({n \in DOMAIN call.ran : RanLevel(n) = lvl /\ call.ran[n].gated})

\* C6: after two consecutive successful RunGroup invocations, the counters
\* of every group selected by the second one (and so by the first) equal
\* the counts produced by the second invocation alone.
C6_GroupCountersReset ==
  (pre.call.op = "RunGroup" /\ pre.call.err = "nil" /\
   call.op = "RunGroup" /\ call.err = "nil") =>
    \A i \in DOMAIN controls.Groups : \A v \in States :
      Field(groups[controls.Groups[i]], v) =
        Cardinality({n \in DOMAIN call.ran :
                       call.ran[n].grp = controls.Groups[i] /\ call.ran[n].state = v})

\* C7: after a successful run, each counter of each group of Controls.Groups
\* equals the number of checks of its Checks list that are in that state.
C7_GroupCounterInvariant ==
  Succeeded =>
    \A i \in DOMAIN controls.Groups : \A v \in States :
      LET group == groups[controls.Groups[i]]
      IN Field(group, v) =
           Cardinality({k \in DOMAIN group.Checks : checks[group.Checks[k]].State = v})

Occ(ids, x) == Cardinality({j \in DOMAIN ids : ids[j] = x})

RECURSIVE Repeat(_, _)
Repeat(seq, n) == IF n = 0 THEN <<>> ELSE seq \o Repeat(seq, n - 1)

\* the groups RunGroup is to keep: each catalog entry once per occurrence of
\* its ID among the requested ids, in catalog order
RECURSIVE ExpectedGroups(_)
ExpectedGroups(i) ==
  IF i > Len(PreGroups) THEN <<>>
  ELSE Repeat(<<PreGroups[i]>>, Occ(EffectiveIds, PreGroup(i).ID)) \o ExpectedGroups(i + 1)

\* the checks RunGroup is to process, in order
RECURSIVE ExpectedChecks(_)
ExpectedChecks(i) ==
  IF i > Len(PreGroups) THEN <<>>
  ELSE Repeat(PreGroup(i).Checks, Occ(EffectiveIds, PreGroup(i).ID)) \o ExpectedChecks(i + 1)

RanIds == [n \in DOMAIN call.ran |-> call.ran[n].id]

\* C8: after a successful RunGroup, Controls.Groups holds, in catalog order,
\* one entry per occurrence of a catalog group's ID among the requested ids
\* and nothing else, each entry with the group's full check list; the checks
\* of a group requested n times are processed and aggregated n times.
C8_RunGroupRebuild ==
  (call.op = "RunGroup" /\ call.err = "nil") =>
    /\ controls.Groups = ExpectedGroups(1)
    /\ \A i \in DOMAIN controls.Groups :
         groups[controls.Groups[i]].Checks = pre.groups[controls.Groups[i]].Checks
    /\ RanIds = ExpectedChecks(1)
    /\ Total(controls.Summary) = Len(ExpectedChecks(1))

\* group "2" was requested twice and is twice in the rebuilt list
C8_Witness ==
  /\ call.op = "RunGroup"
  /\ call.err = "nil"
  /\ call.ids = <<"2", "2">>
  /\ Len(controls.Groups) = 2
  /\ controls.Groups[1] = controls.Groups[2]
  /\ Len(call.ran) = 2

UniqueGroupIDs ==
  \A i, j \in DOMAIN PreGroups : i # j => PreGroup(i).ID # PreGroup(j).ID

\* the checks of list Cs that match a requested id, once per match, in order
RECURSIVE MatchedChecks(_, _)
MatchedChecks(Cs, k) ==
  IF k > Len(Cs) THEN <<>>
  ELSE Repeat(<<Cs[k]>>, Occ(EffectiveIds, Cs[k])) \o MatchedChecks(Cs, k + 1)

NewGroupAt(e) == groups[controls.Groups[e]]

\* C9: after a successful RunChecks on a catalog with unique group IDs, the
\* rebuilt Controls.Groups has no two entries with the same ID, has an entry
\* for a group exactly when one of its checks matched a requested id, and
\* that entry holds the group's matched checks in catalog order.
C9_RunChecksDedup ==
  (call.op = "RunChecks" /\ call.err = "nil" /\ UniqueGroupIDs) =>
    /\ \A e, f \in DOMAIN controls.Groups : e # f => NewGroupAt(e).ID # NewGroupAt(f).ID
    /\ \A i \in DOMAIN PreGroups :
         (\E e \in DOMAIN controls.Groups : NewGroupAt(e).ID = PreGroup(i).ID)
           <=> MatchedChecks(PreGroup(i).Checks, 1) # <<>>
    /\ \A e \in DOMAIN controls.Groups :
         \E i \in DOMAIN PreGroups :
           /\ NewGroupAt(e).ID = PreGroup(i).ID
           /\ NewGroupAt(e).Checks = MatchedChecks(PreGroup(i).Checks, 1)

\* two different checks of one group were requested and share one entry
C9_Witness ==
  /\ call.op = "RunChecks"
  /\ call.err = "nil"
  /\ UniqueGroupIDs
  /\ Len(call.ids) = 2
  /\ call.ids[1] # call.ids[2]
  /\ Len(controls.Groups) = 1
  /\ Len(NewGroupAt(1).Checks) = 2

\* the position, in processing order, of the first check whose level RunGroup
\* cannot parse (0 when the user-selected level is the one it cannot parse,
\* one past the end when every level parses)
RECURSIVE FirstBad(_, _)
FirstBad(Cs, p) ==
  IF p > Len(Cs) \/ ParseUint(pre.checks[Cs[p]].CheckCISLevel).err THEN p
  ELSE FirstBad(Cs, p + 1)

Offending ==
  IF UserLevel.err THEN 0 ELSE FirstBad(ExpectedChecks(1), 1)

\* C10: when the user-selected level or the level of a check of a requested
\* group is not an unsigned integer, RunGroup returns an error, and exactly
\* the checks before the offending one were executed, given remediation text
\* and counted.
C10_LevelParseAbort ==
  (call.op = "RunGroup" /\ Offending <= Len(ExpectedChecks(1))) =>
    LET done == IF Offending = 0 THEN <<>> ELSE SubSeq(ExpectedChecks(1), 1, Offending - 1)
    IN /\ call.err = "error"
       /\ RanIds = done
       /\ Total(controls.Summary) = Len(done)
       /\ SumLevels(controls.SummaryLevelWise, DOMAIN controls.SummaryLevelWise) = Len(done)
       /\ \A c \in CheckIDs :
            Len(checks[c].TestInfo) = Len(pre.checks[c].TestInfo) + Occ(done, c)

\* the checks RunChecks is to execute, in order: every check of the catalog
\* once per requested id equal to its ID
RECURSIVE ExpectedMatches(_)
ExpectedMatches(i) ==
  IF i > Len(PreGroups) THEN <<>>
  ELSE MatchedChecks(PreGroup(i).Checks, 1) \o ExpectedMatches(i + 1)

\* C11: whatever the user-selected level and the checks' required levels
\* (unparsable ones and levels above the user's included), RunChecks executes
\* every check whose ID matches a requested id, force-sets none of them to
\* SKIP, and returns no level parse error.
C11_NoGatingInRunChecks ==
  call.op = "RunChecks" =>
    /\ call.err # "error"
    /\ RanIds = ExpectedMatches(1)
    /\ \A n \in DOMAIN call.ran : ~call.ran[n].gated

\* how many times check cid is listed in the catalog the last invocation
\* started from, over all groups / over the groups with ID gid
CatalogPositions ==
  UNION { { <<i, k>> : k \in DOMAIN PreGroup(i).Checks } : i \in DOMAIN PreGroups }

InCatalog(cid) ==
  Cardinality({ p \in CatalogPositions : PreGroup(p[1]).Checks[p[2]] = cid })

InCatalogGroup(gid, cid) ==
  Cardinality({ p \in CatalogPositions :
                  PreGroup(p[1]).ID = gid /\ PreGroup(p[1]).Checks[p[2]] = cid })

\* every Check.Run call of the last invocation was folded once into the
\* global Summary and once into the Summary of its check's level
FoldedOnce ==
  \A v \in States :
    /\ Field(controls.Summary, v) =
         Cardinality({n \in DOMAIN call.ran : call.ran[n].state = v})
    /\ \A lvl \in DOMAIN controls.SummaryLevelWise :
         Field(controls.SummaryLevelWise[lvl], v) =
           Cardinality({n \in DOMAIN call.ran :
                          /\ call.ran[n].state = v
                          /\ checks[call.ran[n].id].CheckCISLevel = lvl})

\* after a RunChecks that returned, check cid was executed n times, had its
\* remediation appended n times, and the rebuilt groups list it n times for
\* each time the catalog listed it in a group of the same ID
ProcessedTimes(cid, n) ==
  /\ Occ(RanIds, cid) = n * InCatalog(cid)
  /\ checks[cid].TestInfo =
       pre.checks[cid].TestInfo \o Repeat(<<Remediation[cid]>>, n * InCatalog(cid))
  /\ \A e \in DOMAIN controls.Groups :
       Occ(NewGroupAt(e).Checks, cid) = n * InCatalogGroup(NewGroupAt(e).ID, cid)

C13_OriginalGroupsKept ==
  call.op = "RunChecks" =>
    /\ \A a \in DOMAIN pre.groups : groups[a] = pre.groups[a]
    /\ call.err = "nil" =>
         \A e \in DOMAIN controls.Groups : controls.Groups[e] \notin DOMAIN pre.groups

\* a RunChecks that matched only part of a group's checks and rebuilt a
\* shell for it, while the group itself kept both checks
C13_Witness ==
  /\ call.op = "RunChecks"
  /\ call.err = "nil"
  /\ Len(controls.Groups) = 1
  /\ NewGroupAt(1).ID = "1"
  /\ NewGroupAt(1).Checks = <<"1.2">>
  /\ pre.groups[PreGroups[1]].ID = "1"
  /\ groups[PreGroups[1]].Checks = <<"1.1", "1.2">>

\* the catalog groups that hold at least one check, as RunChecks rebuilds
\* them: new objects with the group's ID, text and check list
RECURSIVE NonEmptyGroups(_)
NonEmptyGroups(i) ==
  IF i > Len(PreGroups) THEN <<>>
  ELSE (IF Len(PreGroup(i).Checks) = 0 THEN <<>>
        ELSE <<NewGroup(PreGroup(i).ID, PreGroup(i).Text, PreGroup(i).Checks)>>)
       \o NonEmptyGroups(i + 1)

RECURSIVE CatalogCheckList(_)
CatalogCheckList(i) ==
  IF i > Len(PreGroups) THEN <<>>
  ELSE PreGroup(i).Checks \o CatalogCheckList(i + 1)

\* C14: RunChecks() with no ids, as the first run on a loaded catalog whose
\* checks have unique IDs, executes every check of the catalog exactly once
\* and rebuilds Controls.Groups as the groups that hold at least one check,
\* in catalog order, each with its checks in their order in the group.
C14_RunAllChecks ==
  (call.op = "RunChecks" /\ Len(call.ids) = 0 /\ runs = 1 /\ call.err = "nil") =>
    /\ RanIds = CatalogCheckList(1)
    /\ \A p \in CatalogPositions : Occ(RanIds, PreGroup(p[1]).Checks[p[2]]) = 1
    /\ [e \in DOMAIN controls.Groups |-> NewGroupAt(e)] = NonEmptyGroups(1)

\* RunChecks() as the first run on the catalog whose second group has no
\* checks: both checks ran and only the first group was rebuilt
C14_Witness ==
  /\ call.op = "RunChecks"
  /\ Len(call.ids) = 0
  /\ runs = 1
  /\ call.err = "nil"
  /\ Len(PreGroups) = 2
  /\ Len(PreGroup(2).Checks) = 0
  /\ RanIds = <<"1.1", "1.2">>
  /\ Len(controls.Groups) = 1

\* the checks a run is to process, in the order of the catalog: group after
\* group and, within a group, check after check; the requested ids only
\* count, through the number of times each occurs
ExpectedOrder == IF call.op = "RunGroup" THEN ExpectedChecks(1) ELSE ExpectedMatches(1)

\* C16: within one run (RunGroup or RunChecks) the checks are passed to
\* Check.Run one after the other in catalog order, groups in the order of
\* Controls.Groups and checks in the order of their group's list, whatever
\* the order of the requested ids; a run that stops early has processed an
\* initial part of that sequence.
C16_CatalogOrder ==
  call.op # "none" =>
    /\ Len(RanIds) <= Len(ExpectedOrder)
    /\ RanIds = SubSeq(ExpectedOrder, 1, Len(RanIds))
    /\ call.err = "nil" => Len(RanIds) = Len(ExpectedOrder)

\* a RunGroup that asked for the second group before the first and ran the
\* first group's checks first
C16_Witness ==
  /\ call.op = "RunGroup"
  /\ call.err = "nil"
  /\ call.ids = <<"2", "1">>
  /\ RanIds = <<"1.1", "1.2", "2.1">>

\* the last invocation selected check cid: a requested id matched it, or
\* its group, at some position of the catalog
Selected(cid) == \E m \in Matches : PreGroup(m[1]).Checks[m[3]] = cid

DistinctIds == \A i, j \in DOMAIN EffectiveIds : i # j => EffectiveIds[i] # EffectiveIds[j]

\* the State the last Check.Run call of the last invocation left in check cid
LastRanState(cid) ==
  LET ns == {n \in DOMAIN call.ran : call.ran[n].id = cid}
  IN call.ran[CHOOSE n \in ns : \A o \in ns : o <= n].state

RECURSIVE SumTestInfo(_)
SumTestInfo(S) ==
  IF S = {} THEN 0
  ELSE LET c == CHOOSE x \in S : TRUE
       IN Len(checks[c].TestInfo) + SumTestInfo(S \ {c})

Reachable(c, heap) ==
  UNION { { heap[c.Groups[i]].Checks[k] : k \in DOMAIN heap[c.Groups[i]].Checks } :
            i \in DOMAIN c.Groups }

\* the requested ids of the last invocation all lie outside the catalog it
\* started from
IdsOutside ==
  /\ Len(call.ids) > 0
  /\ \A j \in DOMAIN call.ids :
       IF call.op = "RunGroup"
       THEN \A i \in DOMAIN PreGroups : PreGroup(i).ID # call.ids[j]
       ELSE call.ids[j] \notin Reachable(pre.controls, pre.groups)

\* C18: over successful runs on one Controls the set of check IDs reachable
\* from Controls.Groups never grows; a run-all (no ids) that follows a
\* successful run executes only checks that run had selected, and a
\* successful run whose requested ids all lie outside what the run before
\* it kept executes nothing and leaves Controls.Groups empty.
C18_CatalogNarrowing ==
  /\ call.op # "none" =>
       Reachable(controls, groups) \subseteq Reachable(pre.controls, pre.groups)
  /\ (runs >= 2 /\ pre.call.err = "nil" /\ Succeeded /\ Len(call.ids) = 0) =>
       \A n \in DOMAIN RanIds :
         \E o \in DOMAIN pre.call.ran : pre.call.ran[o].id = RanIds[n]
  /\ (runs >= 2 /\ pre.call.err = "nil" /\ Succeeded /\ IdsOutside) =>
       /\ Len(call.ran) = 0
       /\ Len(controls.Groups) = 0

\* RunGroup("2") kept the second group only; the RunChecks("1.1") after it
\* executed nothing and left no group
C18_Witness ==
  /\ runs = 2
  /\ pre.call.op = "RunGroup"
  /\ pre.call.ids = <<"2">>
  /\ pre.call.err = "nil"
  /\ Reachable(pre.controls, pre.groups) = {"2.1"}
  /\ call.op = "RunChecks"
  /\ call.ids = <<"1.1">>
  /\ call.err = "nil"
  /\ Len(call.ran) = 0
  /\ Len(controls.Groups) = 0

\* C19: when RunGroup returns an error, Controls.Groups is the list it was
\* before the call, the global and the level summaries were reset and hold
\* only this call's counts, and the Summary returned with the error counts
\* exactly the checks processed before the offending check: none when the
\* user-selected level is the one that cannot be parsed.
C19_StateOnRunGroupError ==
  (call.op = "RunGroup" /\ call.err = "error") =>
    /\ controls.Groups = pre.controls.Groups
    /\ DOMAIN controls.SummaryLevelWise = {"1", "2"}
    /\ call.ret = controls.Summary
    /\ Offending <= Len(ExpectedChecks(1))
    /\ Len(call.ran) = (IF Offending = 0 THEN 0 ELSE Offending - 1)
    /\ \A v \in States :
         /\ Field(call.ret, v) =
              Cardinality({n \in DOMAIN call.ran : call.ran[n].state = v})
         /\ Field(controls.SummaryLevelWise["1"], v)
              + Field(controls.SummaryLevelWise["2"], v) = Field(call.ret, v)
    /\ UserLevel.err =>
         /\ call.ret = Summary0
         /\ \A lvl \in {"1", "2"} : controls.SummaryLevelWise[lvl] = Summary0

\* a second RunGroup that, like the first, processed one check and then
\* returned an error: the Summary counts one check, not two
C19_Witness ==
  /\ runs = 2
  /\ pre.call.op = "RunGroup"
  /\ pre.call.err = "error"
  /\ Total(pre.controls.Summary) = 1
  /\ call.op = "RunGroup"
  /\ call.err = "error"
  /\ Len(call.ran) = 1
  /\ Total(call.ret) = 1
  /\ Len(controls.Groups) = 2

\* C15: NewControls returns an error and no Controls when the document does
\* not parse or its node type differs from the requested one; when it
\* succeeds, the Controls it returns has the caller-supplied level as
\* UserCISLevel and every check of every group has the Commands that
\* textToCommand derives from its Audit text.
C15_LoadValidation ==
  load.err # "none" =>
    /\ (~load.in.ok \/ load.in.type # load.t) => (load.err = "error" /\ load.ret = "nil")
    /\ load.err = "nil" =>
         /\ load.ret = "c"
         /\ controls.UserCISLevel = load.level
         /\ \A i \in DOMAIN controls.Groups :
              \A k \in DOMAIN groups[controls.Groups[i]].Checks :
                LET check == checks[groups[controls.Groups[i]].Checks[k]]
                IN check.Commands = textToCommand(check.Audit)

====
